---- MODULE Spec2Model ----
(***************************************************************************)
(* Model of the photo-to-player name matcher of the photo-mapper backend   *)
(* (photo-mapper/backend/app.py, photo_player_mapping.py), of the request  *)
(* handlers of app.py and of fix_mailing_list.py.                          *)
(*                                                                         *)
(* A Python string is modelled as a sequence of one-character strings, so  *)
(* that lower-casing, regular-expression substitution, stripping,          *)
(* concatenation and substring tests are computed character by character.  *)
(***************************************************************************)
EXTENDS Integers, Sequences, FiniteSets, TLC

VARIABLES
    pc,          \* position of the modelled call
    photo_name,  \* argument of match_photo_to_player
    players,     \* argument of match_photo_to_player (the roster)
    matches,     \* the list `matches` as built by the loop, before the sort
    result,      \* the value returned by match_photo_to_player
    name,        \* argument of normalize_name
    normalized,  \* the value returned by normalize_name
    player,      \* argument of generate_name_variations
    variations,  \* the value returned by generate_name_variations
    set_order,   \* what this process has fixed about the iteration of its sets
    history,     \* every call made so far, with its process and its result
    epoch,       \* number of the running interpreter process
    calls,       \* number of calls of match_photo_to_player made so far
    photos,      \* argument of create_photo_mappings / create_photo_mapping
    mappings,    \* the list `mappings` they return
    unmatched_photos,  \* the list `unmatched_photos` of create_photo_mapping
    match_results,     \* the match result they obtained for each photo
    response,    \* the HTTP response of a request handler
    renames,     \* the list `renames` of the request of rename_files
    drive,       \* the files of the Drive folder
    results,     \* the list `results` of rename_files
    op,          \* position of `rename_op` in `renames`
    drive_calls, \* the Drive calls issued so far, with their outcome
    copied_file, \* the file returned by the copy call
    export_mappings,  \* the list `mappings` of the request of export_csv
    sheet,       \* the rows of the 'Mailing List' worksheet
    all_data,    \* the rows read by fix_mailing_list_structure
    returned,    \* the value returned by fix_mailing_list_structure
    sheet_before,  \* the rows of the worksheet when the running execution began
    runs         \* executions of fix_mailing_list_structure begun so far

normVars == <<name, normalized>>
varVars  == <<player, variations>>
procVars == <<set_order, history, epoch, calls>>
callVars == <<photo_name, players, matches, result>>
mapVars  == <<photos, mappings, unmatched_photos, match_results>>
renVars  == <<renames, drive, results, op, drive_calls, copied_file>>
fixVars  == <<sheet, all_data, returned, sheet_before, runs>>
extVars  == <<response, renVars, export_mappings, fixVars>>

vars == <<pc, photo_name, players, matches, result, name, normalized,
          player, variations, set_order, history, epoch, calls,
          photos, mappings, unmatched_photos, match_results,
          response, renames, drive, results, op, drive_calls, copied_file,
          export_mappings, sheet, all_data, returned, sheet_before, runs>>

-----------------------------------------------------------------------------
(* Values *)

\* Python's None; every other value of a name field is a string
NoneValue == <<"None">>

IsStr(x) == x # NoneValue

\* the test `x != ''` in place of the truth value
Truthy_not_empty(x) == x # <<>>

\* truth value of a field that is None or a string, as in `if x`
Truthy(x) == x # NoneValue /\ x # <<>>

\* str(x), also what an f-string puts in place of {x}
py_str(x) == IF x = NoneValue THEN <<"N","o","n","e">> ELSE x

-----------------------------------------------------------------------------
(* Characters *)

UpperSeq == <<"A","B","C","D","E","F","G","H","I","J","K","L","M",
              "N","O","P","Q","R","S","T","U","V","W","X","Y","Z">>
LowerSeq == <<"a","b","c","d","e","f","g","h","i","j","k","l","m",
              "n","o","p","q","r","s","t","u","v","w","x","y","z">>

UpperChars == {UpperSeq[i] : i \in 1..26}
LowerChars == {LowerSeq[i] : i \in 1..26}
DigitChars == {"0","1","2","3","4","5","6","7","8","9"}

\* \w of the re module: letters, digits and the underscore
WordChars == UpperChars \cup LowerChars \cup DigitChars \cup {"_"}

\* \s of the re module (the whitespace characters used here)
SpaceChars == {" ", "\t"}

\* the class [\s\-]
SepChars == SpaceChars \cup {"-"}

\* the complement of the class [^\w\s-]: the characters the first re.sub keeps
KeptChars == WordChars \cup SpaceChars \cup {"-"}

IsSpaceChar(c) == c \in SpaceChars

IsSepChar(c) == c \in SepChars

KeepChar(c) == c \in KeptChars

LowerOf == [c \in UpperChars |-> LowerSeq[CHOOSE i \in 1..26 : UpperSeq[i] = c]]

LowerChar(c) == IF c \in UpperChars THEN LowerOf[c] ELSE c

\* str.lower()
str_lower(s) == [i \in 1..Len(s) |-> LowerChar(s[i])]

\* re.sub(r'[^\w\s-]', '', s)
RemoveSpecial(s) == SelectSeq(s, KeepChar)

RECURSIVE DropLeadingSep(_)
DropLeadingSep(s) ==
    IF s # <<>> /\ IsSepChar(Head(s)) THEN DropLeadingSep(Tail(s)) ELSE s

\* re.sub(r'[\s\-]+', ' ', s): every maximal run of separators becomes one space
RECURSIVE CollapseRuns(_)
CollapseRuns(s) ==
    IF s = <<>> THEN <<>>
    ELSE IF IsSepChar(Head(s))
         THEN <<" ">> \o CollapseRuns(DropLeadingSep(Tail(s)))
         ELSE <<Head(s)>> \o CollapseRuns(Tail(s))

RECURSIVE LStrip(_)
LStrip(s) == IF s # <<>> /\ IsSpaceChar(Head(s)) THEN LStrip(Tail(s)) ELSE s

RECURSIVE RStrip(_)
RStrip(s) ==
    IF s # <<>> /\ IsSpaceChar(s[Len(s)])
    THEN RStrip(SubSeq(s, 1, Len(s) - 1))
    ELSE s

\* str.strip()
str_strip(s) == LStrip(RStrip(s))

\* normalize_name with the strip applied before the separator runs collapse
normalize_name_strip_first(nm) ==
    IF ~Truthy(nm) THEN <<>>
    ELSE CollapseRuns(str_strip(RemoveSpecial(str_lower(py_str(nm)))))

normalize_name(nm) ==
    IF ~Truthy(nm) THEN <<>>
    ELSE str_strip(CollapseRuns(RemoveSpecial(str_lower(py_str(nm)))))

-----------------------------------------------------------------------------
(* Strings *)

\* Python's `a in b` for strings
IsSubstring(a, b) ==
    \E i \in 0..(Len(b) - Len(a)) : SubSeq(b, i + 1, i + Len(a)) = a

\* str.replace(old, new) for one-character old and new
str_replace(s, old, new) == [i \in 1..Len(s) |-> IF s[i] = old THEN new ELSE s[i]]

\* last index of character c in s, 0 when absent (str.rfind, one-based)
str_rfind(s, c) ==
    IF \E i \in 1..Len(s) : s[i] = c
    THEN CHOOSE i \in 1..Len(s) : s[i] = c /\ \A j \in (i + 1)..Len(s) : s[j] # c
    ELSE 0

RECURSIVE str_split(_, _)
str_split(s, c) ==
    IF \E i \in 1..Len(s) : s[i] = c
    THEN LET i == CHOOSE k \in 1..Len(s) : s[k] = c /\ \A j \in 1..(k - 1) : s[j] # c
         IN  <<SubSeq(s, 1, i - 1)>> \o str_split(SubSeq(s, i + 1, Len(s)), c)
    ELSE <<s>>

IsPathPart(x) == x # <<>> /\ x # <<".">>

\* Path(p).name: the last component of the path, empty when there is none
path_name(p) ==
    LET parts == SelectSeq(str_split(p, "/"), IsPathPart)
    IN  IF parts = <<>> THEN <<>> ELSE parts[Len(parts)]

\* the name with its dots deleted, the suffix text kept
path_stem_keeps_text(p) ==
    LET NotDot(c) == c # "."
    IN  SelectSeq(path_name(p), NotDot)

\* Path(p).suffix: the last suffix of the name, empty when there is none
path_suffix(p) ==
    LET nm == path_name(p)
        i  == str_rfind(nm, ".")
    IN  IF 1 < i /\ i < Len(nm) THEN SubSeq(nm, i, Len(nm)) ELSE <<>>

\* Path(p).name in place of the stem
path_stem_keeps_suffix(p) == path_name(p)

\* Path(p).stem: the name without its last suffix; a leading or a trailing
\* dot does not start a suffix
path_stem(p) ==
    LET nm == path_name(p)
        i  == str_rfind(nm, ".")
    IN  IF 1 < i /\ i < Len(nm) THEN SubSeq(nm, 1, i - 1) ELSE nm

-----------------------------------------------------------------------------
(* generate_name_variations *)

\* an f-string joining two fields with a separator
Joined(x, sep, y) == py_str(x) \o <<sep>> \o py_str(y)

\* the bare names added whenever they are non-empty themselves
FirstLastVariations_unguarded(first, last) ==
    (IF Truthy(first) /\ Truthy(last)
     THEN { Joined(first, " ", last), Joined(last, " ", first),
            Joined(first, "_", last), Joined(last, "_", first),
            Joined(first, ".", last), Joined(last, ".", first),
            Joined(first, "-", last), Joined(last, "-", first) }
     ELSE {})
    \cup (IF Truthy(first) THEN { first } ELSE {})
    \cup (IF Truthy(last) THEN { last } ELSE {})

\* the joined combinations without the bare first and last name
FirstLastVariations_no_bare(first, last) ==
    IF Truthy(first) /\ Truthy(last)
    THEN { Joined(first, " ", last), Joined(last, " ", first),
           Joined(first, "_", last), Joined(last, "_", first),
           Joined(first, ".", last), Joined(last, ".", first),
           Joined(first, "-", last), Joined(last, "-", first) }
    ELSE {}

\* the strings added under `if first and last`
FirstLastVariations(first, last) ==
    IF Truthy(first) /\ Truthy(last)
    THEN { Joined(first, " ", last), Joined(last, " ", first),
           Joined(first, "_", last), Joined(last, "_", first),
           Joined(first, ".", last), Joined(last, ".", first),
           Joined(first, "-", last), Joined(last, "-", first),
           first, last }
    ELSE {}

\* the strings added to `variations` before normalization
RawVariations(pl) ==
    LET full  == pl.full_name
        ParentVariations(pf, plast) ==
            IF Truthy(pf) /\ Truthy(plast)
            THEN { Joined(pf, " ", plast), Joined(pf, "_", plast),
                   Joined(plast, "_", pf), pf, plast }
            ELSE {}
    IN  FirstLastVariations(pl.first_name, pl.last_name)
        \cup
        (IF Truthy(full)
         THEN { full, str_replace(full, " ", "_"), str_replace(full, " ", "."),
                str_replace(full, " ", "-") }
         ELSE {})
        \cup ParentVariations(pl.parent1_first, pl.parent1_last)
        \cup ParentVariations(pl.parent2_first, pl.parent2_last)

\* full.replace raises AttributeError when the full name passes `if full`
\* without being a string
VariationsRaise(pl) == Truthy(pl.full_name) /\ ~IsStr(pl.full_name)

\* the variations inserted without normalization
generate_name_variations_raw(pl) ==
    { py_str(v) : v \in RawVariations(pl) } \ { <<>> }

generate_name_variations(pl) ==
    { normalize_name(v) : v \in RawVariations(pl) } \ { <<>> }

-----------------------------------------------------------------------------
(* match_photo_to_player *)

ExactMatch(pl, key) ==
    [player |-> pl, confidence |-> "high", match_type |-> "exact",
     matched_variation |-> key]

\* a partial candidate tagged with the confidence of an exact one
PartialMatch_high(pl, variation) ==
    [player |-> pl, confidence |-> "high", match_type |-> "partial",
     matched_variation |-> variation]

PartialMatch(pl, variation) ==
    [player |-> pl, confidence |-> "medium", match_type |-> "partial",
     matched_variation |-> variation]

\* the containment test guarded by the length of the stem as well
PartialHits_key_guard(pv, key) ==
    { v \in pv : Len(v) > 2 /\ Len(key) > 2
                 /\ (IsSubstring(v, key) \/ IsSubstring(key, v)) }

\* the containment test in one direction only
PartialHits_one_way(pv, key) ==
    { v \in pv : Len(v) > 2 /\ IsSubstring(v, key) }

\* the containment test without the length guard
PartialHits_no_guard(pv, key) ==
    { v \in pv : IsSubstring(v, key) \/ IsSubstring(key, v) }

\* the variations on which the inner loop appends and breaks
PartialHits(pv, key) ==
    { v \in pv : Len(v) > 2 /\ (IsSubstring(v, key) \/ IsSubstring(key, v)) }

\* the loop body testing only the variation the set yields first
MatchesForPlayer_first_only(pl, key) ==
    LET pv   == generate_name_variations(pl)
        hits == PartialHits(pv, key)
    IN  IF key \in pv THEN { <<ExactMatch(pl, key)>> }
        ELSE IF pv = {} THEN { <<>> }
        ELSE { IF v \in hits THEN <<PartialMatch(pl, v)>> ELSE <<>> : v \in pv }

\* the loop body without the `continue` after an exact match
MatchesForPlayer_no_continue(pl, key) ==
    LET pv   == generate_name_variations(pl)
        hits == PartialHits(pv, key)
        part == IF hits = {} THEN { <<>> }
                ELSE { <<PartialMatch(pl, v)>> : v \in hits }
    IN  IF key \in pv
        THEN { <<ExactMatch(pl, key)>> \o p : p \in part }
        ELSE part

\* the loop body without the `break` after the first partial match
MatchesForPlayer_no_break(pl, key) ==
    LET pv   == generate_name_variations(pl)
        hits == PartialHits(pv, key)
    IN  IF key \in pv THEN { <<ExactMatch(pl, key)>> }
        ELSE IF hits = {} THEN { <<>> }
        ELSE IF Cardinality(hits) = 1
             THEN { <<PartialMatch(pl, v)>> : v \in hits }
             ELSE { <<PartialMatch(pl, x[1]), PartialMatch(pl, x[2])>> :
                        x \in { y \in hits \X hits : y[1] # y[2] } }

\* What one iteration of `for player in players` appends to `matches`.  The
\* variation set is a Python set of strings, whose iteration order is not
\* fixed: the first variation that passes the test can be any variation
\* that passes it.
MatchesForPlayer(pl, key) ==
    LET pv   == generate_name_variations(pl)
        hits == PartialHits(pv, key)
    IN  IF key \in pv THEN { <<ExactMatch(pl, key)>> }
        ELSE IF hits = {} THEN { <<>> }
        ELSE { <<PartialMatch(pl, v)>> : v \in hits }

\* the possible values of `matches` when the loop over the roster ends
RECURSIVE LoopMatches(_, _)
LoopMatches(ps, key) ==
    IF ps = <<>> THEN { <<>> }
    ELSE { h \o t : h \in MatchesForPlayer(Head(ps), key),
                    t \in LoopMatches(Tail(ps), key) }

\* the ranks in ascending order of confidence label
confidence_order_inverted == [high |-> 1, medium |-> 2, low |-> 3]

confidence_order == [high |-> 3, medium |-> 2, low |-> 1]

SortKey(m) == confidence_order[m.confidence]

\* insertion in front of the elements with an equal key
RECURSIVE InsertDescending_unstable(_, _)
InsertDescending_unstable(sorted, m) ==
    IF sorted = <<>> THEN <<m>>
    ELSE IF SortKey(Head(sorted)) > SortKey(m)
         THEN <<Head(sorted)>> \o InsertDescending_unstable(Tail(sorted), m)
         ELSE <<m>> \o sorted

\* insertion behind every element whose key is greater or equal
RECURSIVE InsertDescending(_, _)
InsertDescending(sorted, m) ==
    IF sorted = <<>> THEN <<m>>
    ELSE IF SortKey(Head(sorted)) >= SortKey(m)
         THEN <<Head(sorted)>> \o InsertDescending(Tail(sorted), m)
         ELSE <<m>> \o sorted

\* list.sort(key=..., reverse=True): descending by key, and stable
RECURSIVE list_sort_reverse(_)
list_sort_reverse(ms) ==
    IF ms = <<>> THEN <<>>
    ELSE InsertDescending(list_sort_reverse(SubSeq(ms, 1, Len(ms) - 1)),
                          ms[Len(ms)])

-----------------------------------------------------------------------------
(* Inputs *)

\* longest roster passed to match_photo_to_player
MaxRoster == 3

\* longest string over Alphabet passed to normalize_name
MaxLen == 3

\* one character of each class normalize_name distinguishes: lower-case and
\* upper-case letter, digit, underscore, hyphen, whitespace, punctuation
Alphabet == {"a", "B", "1", "_", "-", " ", "."}

Empty == <<>>
Jane  == <<"J","a","n","e">>
Doe   == <<"D","o","e">>
John  == <<"J","o","h","n">>
Smith == <<"S","m","i","t","h">>
Mary  == <<"M","a","r","y">>
Jones == <<"J","o","n","e","s">>
Jo    == <<"J","o">>
Al    == <<"A","l">>
Li    == <<"L","i">>

Names(first, last, full, p1f, p1l, p2f, p2l) ==
    [first_name |-> first, last_name |-> last, full_name |-> full,
     parent1_first |-> p1f, parent1_last |-> p1l,
     parent2_first |-> p2f, parent2_last |-> p2l]

JaneDoeNoFull  == Names(Jane, Doe, Empty, Empty, Empty, Empty, Empty)
JohnSmith      == Names(John, Smith, John \o <<" ">> \o Smith, Empty, Empty, Empty, Empty)
MarySmithJones == Names(Mary, Smith \o <<"-">> \o Jones,
                        Mary \o <<" ">> \o Smith \o <<"-">> \o Jones,
                        Empty, Empty, Empty, Empty)
OnlyFullJo     == Names(Empty, Empty, Jo, Empty, Empty, Empty, Empty)
AlLiParents    == Names(Al, Li, Empty, Empty, Smith, Jane, Doe)

\* the name fields a roster entry is drawn from: first and last name without
\* and with a full name, a hyphenated last name, a full name only (one short
\* variation), and short names with an incomplete and a complete parent pair
PersonPool ==
    { JaneDoeNoFull, JohnSmith, MarySmithJones, OnlyFullJo, AlLiParents }

\* a roster: entry i carries student_id i, so entries are told apart
Roster(f) ==
    [i \in DOMAIN f |->
        [student_id |-> i,
         first_name |-> f[i].first_name, last_name |-> f[i].last_name,
         full_name |-> f[i].full_name,
         parent1_first |-> f[i].parent1_first, parent1_last |-> f[i].parent1_last,
         parent2_first |-> f[i].parent2_first, parent2_last |-> f[i].parent2_last]]

Rosters == UNION { { Roster(f) : f \in [1..n -> PersonPool] } : n \in 0..MaxRoster }

DotJpg == <<".","j","p","g">>
DotPng == <<".","p","n","g">>

Photo_Jane_Doe_jpg    == Jane \o <<"_">> \o Doe \o DotJpg
Photo_jane_doe_action == <<"j","a","n","e","-","d","o","e","-","a","c","t","i","o","n",
                           "-","s","h","o","t">> \o DotPng
Photo_smith_jpg       == <<"s","m","i","t","h">> \o DotJpg
Photo_anything_jpg    == <<"a","n","y","t","h","i","n","g">> \o DotJpg
Photo_jojo_png        == <<"j","o","j","o">> \o DotPng
Photo_john_smith_jones == John \o <<" ">> \o Smith \o <<"-">> \o Jones \o <<".","J","P","G">>

PhotoNames ==
    { Photo_Jane_Doe_jpg, Photo_jane_doe_action, Photo_smith_jpg,
      Photo_anything_jpg, Photo_jojo_png, Photo_john_smith_jones }

Name_Jane_Doe  == Jane \o <<"_">> \o Doe
Name_jane_doe  == <<"j","a","n","e","-","d","o","e">>
Name_Jane__Doe == Jane \o <<" ", " ">> \o Doe

BoundedStrings == UNION { [1..n -> Alphabet] : n \in 0..MaxLen }

NameInputs == BoundedStrings \cup { Name_Jane_Doe, Name_jane_doe, Name_Jane__Doe }

-----------------------------------------------------------------------------
(* The matcher: one call of match_photo_to_player *)

IdleNorm == name = <<>> /\ normalized = <<>>
IdleVar  == player = <<>> /\ variations = {}
IdleProc == set_order = {} /\ history = {} /\ epoch = 1 /\ calls = 0
IdleCall == photo_name = <<>> /\ players = <<>> /\ matches = <<>> /\ result = <<>>
IdleMap  == photos = <<>> /\ mappings = <<>> /\ unmatched_photos = <<>>
            /\ match_results = <<>>
NoResponse == [status |-> 0]
NoFile     == [id |-> <<>>]
IdleRen  == renames = <<>> /\ drive = {} /\ results = <<>> /\ op = 0
            /\ drive_calls = <<>> /\ copied_file = NoFile
IdleFix  == sheet = <<>> /\ all_data = <<>> /\ returned = "none"
            /\ sheet_before = <<>> /\ runs = 0
IdleExt  == response = NoResponse /\ IdleRen /\ export_mappings = <<>> /\ IdleFix

\* the name fields of a roster entry, from which its variation set is built
NamesOf(pl) ==
    [first_name |-> pl.first_name, last_name |-> pl.last_name,
     full_name |-> pl.full_name,
     parent1_first |-> pl.parent1_first, parent1_last |-> pl.parent1_last,
     parent2_first |-> pl.parent2_first, parent2_last |-> pl.parent2_last]

\* The iteration order of a set of strings depends on the string hashes of
\* the running interpreter and on the insertions that built the set.  Within
\* one process, sets built from the same name fields iterate in the same
\* order, so the same fields and the same stem report the same variation.
\* `order` holds the variations reported so far in this process.
OrderConsistent(ms, key, order) ==
    \A j \in 1..Len(ms) :
        ms[j].match_type = "partial" =>
            /\ \A e \in order :
                   (e.names = NamesOf(ms[j].player) /\ e.key = key)
                       => e.first = ms[j].matched_variation
            /\ \A k \in 1..Len(ms) :
                   (ms[k].match_type = "partial"
                    /\ ms[k].player # ms[j].player
                    /\ NamesOf(ms[k].player) = NamesOf(ms[j].player))
                       => ms[k].matched_variation = ms[j].matched_variation

OrderChoices(ms, key) ==
    { [names |-> NamesOf(ms[j].player), key |-> key,
       first |-> ms[j].matched_variation] :
          j \in { k \in 1..Len(ms) : ms[k].match_type = "partial" } }

\* Path(photo_name) raises TypeError for None; generate_name_variations may raise
MatchRaises(p, ps) ==
    ~IsStr(p) \/ \E i \in 1..Len(ps) : VariationsRaise(ps[i])

\* a list that outlives the call instead of a fresh one
InitialMatches_kept(m) == m

\* matches = []
InitialMatches(m) == <<>>

Init ==
    /\ pc = "match_call"
    /\ photo_name \in PhotoNames
    /\ players \in Rosters
    /\ matches = <<>>
    /\ result = <<>>
    /\ IdleNorm /\ IdleVar /\ IdleProc /\ IdleMap /\ IdleExt

match_photo_to_player ==
    /\ pc = "match_call"
    /\ calls' = calls + 1
    /\ IF MatchRaises(photo_name, players)
       THEN /\ pc' = "match_raised"
            /\ UNCHANGED <<matches, result, set_order, history>>
       ELSE /\ pc' = "match_done"
            /\ LET normalized_filename == normalize_name(path_stem(photo_name))
               IN  \E ms \in LoopMatches(players, normalized_filename) :
                       /\ OrderConsistent(ms, normalized_filename, set_order)
                       /\ matches' = InitialMatches(matches) \o ms
                       /\ set_order' =
                              set_order \cup OrderChoices(ms, normalized_filename)
            /\ result' = list_sort_reverse(matches')
            /\ history' = history \cup
                              { [epoch |-> epoch, photo_name |-> photo_name,
                                 players |-> players, result |-> result'] }
    /\ UNCHANGED <<photo_name, players, epoch, normVars, varVars, mapVars, extVars>>

Next == match_photo_to_player

Spec == Init /\ [][Next]_vars

-----------------------------------------------------------------------------
(* The normalizer: one call of normalize_name *)

InitNorm ==
    /\ pc = "norm_call"
    /\ name \in NameInputs
    /\ normalized = <<>>
    /\ IdleCall /\ IdleVar /\ IdleProc /\ IdleMap /\ IdleExt

CallNormalize ==
    /\ pc = "norm_call"
    /\ normalized' = normalize_name(name)
    /\ pc' = "norm_done"
    /\ UNCHANGED <<name, callVars, varVars, procVars, mapVars, extVars>>

NextNorm == CallNormalize

SpecNorm == InitNorm /\ [][NextNorm]_vars

-----------------------------------------------------------------------------
(* Calls on empty and null input *)

\* longest roster of the calls on empty and null input
MaxEdgeRoster == 2

JaneDoeFull   == Names(Jane, Doe, Jane \o <<" ">> \o Doe, Empty, Empty, Empty, Empty)
AllNone       == Names(NoneValue, NoneValue, NoneValue, NoneValue, NoneValue,
                       NoneValue, NoneValue)
AllEmpty      == Names(Empty, Empty, Empty, Empty, Empty, Empty, Empty)
JaneDoeNoneFull == Names(Jane, Doe, NoneValue, NoneValue, NoneValue, Empty, Empty)
OnlyFirstJane == Names(Jane, Empty, NoneValue, Empty, Empty, Empty, Empty)
NoneFirstDoe  == Names(NoneValue, Doe, Jo, NoneValue, Li, Al, NoneValue)

\* roster entries with null and empty fields next to a complete one
EdgePool ==
    { JaneDoeFull, AllNone, AllEmpty, JaneDoeNoneFull, OnlyFirstJane, NoneFirstDoe }

EdgeRosters ==
    UNION { { Roster(f) : f \in [1..n -> EdgePool] } : n \in 0..MaxEdgeRoster }

Photo_bang_jpg == <<"!">> \o DotJpg

\* the empty filename, a stem of punctuation only, and two ordinary names
EdgePhotoNames == { <<>>, Photo_bang_jpg, Photo_anything_jpg, Photo_Jane_Doe_jpg }

EdgeNameInputs ==
    { NoneValue, <<>>, <<" ">>, <<"-", ".">>, Jane, Name_Jane_Doe }

InitEdge ==
    /\ IdleVar /\ IdleProc /\ IdleMap /\ IdleExt
    /\ \/ /\ pc = "match_call"
          /\ photo_name \in EdgePhotoNames
          /\ players \in EdgeRosters
          /\ matches = <<>>
          /\ result = <<>>
          /\ IdleNorm
       \/ /\ pc = "norm_call"
          /\ name \in EdgeNameInputs
          /\ normalized = <<>>
          /\ IdleCall

NextEdge == match_photo_to_player \/ CallNormalize

SpecEdge == InitEdge /\ [][NextEdge]_vars

-----------------------------------------------------------------------------
(* Calls in sequence, in one interpreter process and in several *)

\* calls made in one behaviour
MaxCalls == 3
\* interpreter processes started in one behaviour
MaxProcs == 2

Photo_Jane_Doe_png == Jane \o <<"_">> \o Doe \o DotPng
Photo_smith_doe    == str_lower(Smith) \o <<".">> \o str_lower(Doe)

ProcPhotoNames ==
    { Photo_Jane_Doe_jpg, Photo_Jane_Doe_png, Photo_smith_jpg, Photo_smith_doe }

ProcRosters ==
    { Roster(<<>>), Roster(<<JaneDoeNoFull>>), Roster(<<MarySmithJones>>),
      Roster(<<MarySmithJones, JaneDoeNoFull>>) }

InitProc ==
    /\ pc = "match_call"
    /\ photo_name \in ProcPhotoNames
    /\ players \in ProcRosters
    /\ matches = <<>>
    /\ result = <<>>
    /\ IdleNorm /\ IdleVar /\ IdleProc /\ IdleMap /\ IdleExt

\* the caller's loop passes the next photo name with the same roster
NextCall ==
    /\ pc = "match_done"
    /\ calls < MaxCalls
    /\ photo_name' \in ProcPhotoNames
    /\ pc' = "match_call"
    /\ UNCHANGED <<players, matches, result, procVars, normVars, varVars, mapVars, extVars>>

\* the server is started again: a new process with new string hashes
Restart ==
    /\ pc = "match_done"
    /\ calls < MaxCalls
    /\ epoch < MaxProcs
    /\ epoch' = epoch + 1
    /\ set_order' = {}
    /\ photo_name' \in ProcPhotoNames
    /\ matches' = <<>>
    /\ result' = <<>>
    /\ pc' = "match_call"
    /\ UNCHANGED <<players, history, calls, normVars, varVars, mapVars, extVars>>

NextProc == match_photo_to_player \/ NextCall \/ Restart

SpecProc == InitProc /\ [][NextProc]_vars

-----------------------------------------------------------------------------
(* Calls with a short file name *)

Photo_dash_png == <<"-">> \o DotPng
Photo_jo_jpg   == str_lower(Jo) \o DotJpg
Photo_Al_png   == Al \o DotPng

ShortPhotoNames ==
    { Photo_bang_jpg, Photo_dash_png, Photo_jo_jpg, Photo_Al_png, Photo_smith_jpg }

ShortRosters ==
    { Roster(<<JohnSmith>>), Roster(<<OnlyFullJo>>),
      Roster(<<OnlyFullJo, JohnSmith>>), Roster(<<AlLiParents, OnlyFullJo>>),
      Roster(<<JaneDoeNoFull, JohnSmith>>) }

InitShort ==
    /\ pc = "match_call"
    /\ photo_name \in ShortPhotoNames
    /\ players \in ShortRosters
    /\ matches = <<>>
    /\ result = <<>>
    /\ IdleNorm /\ IdleVar /\ IdleProc /\ IdleMap /\ IdleExt

NextShort == match_photo_to_player

SpecShort == InitShort /\ [][NextShort]_vars

-----------------------------------------------------------------------------
(* create_photo_mappings (app.py) and create_photo_mapping (script) *)

\* photos passed to one call
MaxPhotos == 2

AlSmithJones == Names(Al, Smith \o <<"-">> \o Jones, Empty, Empty, Empty, Empty, Empty)
JoSmith      == Names(Jo, Smith, Empty, Empty, Empty, Empty, Empty)

MapRosters ==
    { Roster(<<>>), Roster(<<JaneDoeNoFull>>),
      Roster(<<MarySmithJones, JohnSmith>>),
      Roster(<<MarySmithJones, JohnSmith, AlSmithJones, JoSmith>>) }

MapPhotoNames == { Photo_smith_jpg, Photo_anything_jpg, Photo_Jane_Doe_jpg }

\* a photo as get_photos_from_folder builds it; the id stands for the links
Photo(i, nm) ==
    [id |-> i, name |-> nm, thumbnailLink |-> <<"thumb", i>>,
     directLink |-> <<"uc?id=", i>>, webViewLink |-> <<"view", i>>]

PhotoLists ==
    UNION { { [i \in 1..n |-> Photo(i, f[i])] : f \in [1..n -> MapPhotoNames] } :
              n \in 0..MaxPhotos }

ConfidenceChars(c) ==
    IF c = "high" THEN <<"h","i","g","h">>
    ELSE IF c = "medium" THEN <<"m","e","d","i","u","m">>
    ELSE <<"l","o","w">>

\* f"{m['player']['full_name']} ({m['confidence']})"
AlternativeText(m) ==
    py_str(m.player.full_name) \o <<" ", "(">> \o ConfidenceChars(m.confidence) \o <<")">>

\* every candidate after the first
Alternatives_all(ms) ==
    [k \in 1..(Len(ms) - 1) |-> AlternativeText(ms[k + 1])]

\* [... for m in matches[1:3]] if len(matches) > 1 else []
Alternatives(ms) ==
    IF Len(ms) > 1
    THEN LET last == IF Len(ms) < 3 THEN Len(ms) ELSE 3
         IN  [k \in 1..(last - 1) |-> AlternativeText(ms[k + 1])]
    ELSE <<>>

\* the mapping of a matched photo in app.py
MatchedMapping(photo, ms) ==
    LET best_match == ms[1]
    IN  [photo_id |-> photo.id, filename |-> photo.name,
         thumbnail_url |-> photo.thumbnailLink, direct_link |-> photo.directLink,
         matched_player |-> best_match.player.full_name,
         confidence |-> best_match.confidence,
         match_type |-> best_match.match_type,
         matched_variation |-> best_match.matched_variation,
         student_id |-> best_match.player.student_id,
         alternative_matches |-> Alternatives(ms)]

\* an unmatched photo tagged with the unused lowest confidence
NoMatchMapping_low(photo) ==
    [photo_id |-> photo.id, filename |-> photo.name,
     thumbnail_url |-> photo.thumbnailLink, direct_link |-> photo.directLink,
     matched_player |-> <<>>, confidence |-> "low", match_type |-> "no_match",
     matched_variation |-> <<>>, student_id |-> <<>>,
     alternative_matches |-> <<>>]

\* an unmatched photo tagged like an exact match
NoMatchMapping_high(photo) ==
    [photo_id |-> photo.id, filename |-> photo.name,
     thumbnail_url |-> photo.thumbnailLink, direct_link |-> photo.directLink,
     matched_player |-> <<>>, confidence |-> "high", match_type |-> "no_match",
     matched_variation |-> <<>>, student_id |-> <<>>,
     alternative_matches |-> <<>>]

\* the mapping of an unmatched photo in app.py
NoMatchMapping(photo) ==
    [photo_id |-> photo.id, filename |-> photo.name,
     thumbnail_url |-> photo.thumbnailLink, direct_link |-> photo.directLink,
     matched_player |-> <<>>, confidence |-> "medium", match_type |-> "no_match",
     matched_variation |-> <<>>, student_id |-> <<>>,
     alternative_matches |-> <<>>]

\* the mapping of a matched photo in photo_player_mapping.py
ScriptMapping(photo, ms) ==
    LET best_match == ms[1]
    IN  [photo_filename |-> photo.name, photo_id |-> photo.id,
         direct_link |-> photo.directLink, web_view_link |-> photo.webViewLink,
         thumbnail_link |-> photo.thumbnailLink,
         matched_player_name |-> best_match.player.full_name,
         matched_first_name |-> best_match.player.first_name,
         matched_last_name |-> best_match.player.last_name,
         student_id |-> best_match.player.student_id,
         confidence |-> best_match.confidence,
         match_type |-> best_match.match_type,
         matched_variation |-> best_match.matched_variation,
         alternative_matches |-> Alternatives(ms)]

\* the results of match_photo_to_player for the photos in turn; in one
\* process a repeated photo name has the result of its first call
RECURSIVE MatchAll(_, _)
MatchAll(phs, ps) ==
    IF phs = <<>> THEN { <<>> }
    ELSE LET n     == Len(phs)
             photo == phs[n]
             seen  == { j \in 1..(n - 1) : phs[j].name = photo.name }
         IN  UNION { IF seen = {}
                     THEN { Append(rs, list_sort_reverse(ms)) :
                               ms \in LoopMatches(ps, normalize_name(path_stem(photo.name))) }
                     ELSE { Append(rs, rs[CHOOSE j \in seen : TRUE]) } :
                     rs \in MatchAll(SubSeq(phs, 1, n - 1), ps) }

\* the sequence s without the elements at the positions outside keep
RECURSIVE Filter(_, _)
Filter(s, keep) ==
    IF s = <<>> THEN <<>>
    ELSE LET front == Filter(SubSeq(s, 1, Len(s) - 1), keep)
         IN  IF Len(s) \in keep THEN Append(front, s[Len(s)]) ELSE front

InitMap ==
    /\ pc = "map_call"
    /\ photos \in PhotoLists
    /\ players \in MapRosters
    /\ mappings = <<>>
    /\ unmatched_photos = <<>>
    /\ match_results = <<>>
    /\ photo_name = <<>> /\ matches = <<>> /\ result = <<>>
    /\ IdleNorm /\ IdleVar /\ IdleProc /\ IdleExt

\* the list create_photo_mappings of app.py returns when the matcher
\* returned rs[i] for photo i
PhotoMappings(phs, rs) ==
    [i \in 1..Len(phs) |->
        IF rs[i] # <<>> THEN MatchedMapping(phs[i], rs[i])
        ELSE NoMatchMapping(phs[i])]

\* app.py
create_photo_mappings ==
    /\ pc = "map_call"
    /\ \E rs \in MatchAll(photos, players) :
           /\ match_results' = rs
           /\ mappings' = PhotoMappings(photos, rs)
    /\ pc' = "app_done"
    /\ UNCHANGED <<photos, unmatched_photos, callVars, procVars, normVars, varVars, extVars>>

\* photo_player_mapping.py
create_photo_mapping ==
    /\ pc = "map_call"
    /\ \E rs \in MatchAll(photos, players) :
           /\ match_results' = rs
           /\ LET matched == { i \in 1..Len(photos) : rs[i] # <<>> }
              IN  /\ mappings' =
                         Filter([i \in 1..Len(photos) |->
                                    IF i \in matched
                                    THEN ScriptMapping(photos[i], rs[i])
                                    ELSE <<>>], matched)
                  /\ unmatched_photos' =
                         Filter(photos, (1..Len(photos)) \ matched)
    /\ pc' = "script_done"
    /\ UNCHANGED <<photos, callVars, procVars, normVars, varVars, extVars>>

NextMap == create_photo_mappings \/ create_photo_mapping

SpecMap == InitMap /\ [][NextMap]_vars

-----------------------------------------------------------------------------
(* The variation generator: one call of generate_name_variations *)

JANE_DOE == <<"J","A","N","E"," ","D","O","E">>

\* every combination of absent and present name fields
VarPool ==
    { Names(f, l, fu, p1f, p1l, p2f, p2l) :
        f   \in { Empty, NoneValue, Jane, Jo },
        l   \in { Empty, Doe, Smith \o <<"-">> \o Jones },
        fu  \in { Empty, Jane \o <<" ">> \o Doe, JANE_DOE, Jo },
        p1f \in { Empty, Al },
        p1l \in { Empty, Li },
        p2f \in { Empty, Mary },
        p2l \in { Empty, Smith } }

InitVar ==
    /\ pc = "var_call"
    /\ player \in VarPool
    /\ variations = {}
    /\ IdleCall /\ IdleNorm /\ IdleProc /\ IdleMap /\ IdleExt

CallGenerate ==
    /\ pc = "var_call"
    /\ ~VariationsRaise(player)
    /\ variations' = generate_name_variations(player)
    /\ pc' = "var_done"
    /\ UNCHANGED <<player, callVars, normVars, procVars, mapVars, extVars>>

NextVar == CallGenerate

SpecVar == InitVar /\ [][NextVar]_vars

-----------------------------------------------------------------------------
(* rename_files: copy each photo under its new name, then delete the original *)

\* rename operations in one request
MaxRenames == 2

IdP1   == <<"p1">>
IdP2   == <<"p2">>
IdGone == <<"px">>

\* the id Drive gives to its n-th copy
CopyId(n) == <<"copy", n>>

\* a file of the folder; origin names the photo it holds
DriveFile(id, nm, origin) == [id |-> id, name |-> nm, origin |-> origin]

InitialDrive ==
    { DriveFile(IdP1, Photo_smith_jpg, IdP1),
      DriveFile(IdP2, Photo_Jane_Doe_png, IdP2) }

\* rename_op with the values its three .get() calls return
RenameOp(id, cur, new) == [photo_id |-> id, current_name |-> cur, new_name |-> new]

OpRename    == RenameOp(IdP1, Photo_smith_jpg, Name_Jane_Doe)
OpRename2   == RenameOp(IdP2, Photo_Jane_Doe_png, John)
OpSameName  == RenameOp(IdP2, Photo_Jane_Doe_png, str_lower(Name_Jane_Doe))
OpNoId      == RenameOp(NoneValue, Photo_smith_jpg, Name_Jane_Doe)
OpEmptyNew  == RenameOp(IdP1, Photo_smith_jpg, Empty)
OpNoCurrent == RenameOp(IdP2, NoneValue, John)
OpGone      == RenameOp(IdGone, Photo_anything_jpg, Name_Jane_Doe)

RenameOps ==
    { OpRename, OpRename2, OpSameName, OpNoId, OpEmptyNew, OpNoCurrent, OpGone }

RenameRequests == UNION { [1..n -> RenameOps] : n \in 0..MaxRenames }

\* not all([photo_id, current_name, new_name])
MissingFields(rename_op) ==
    ~(Truthy(rename_op.photo_id) /\ Truthy(rename_op.current_name)
      /\ Truthy(rename_op.new_name))

\* the comparison of the two names as they are written
SameName_case_sensitive(current_name, new_name) ==
    path_stem(current_name) = new_name

\* current_stem.lower() == new_name.lower()
SameName(current_name, new_name) ==
    str_lower(path_stem(current_name)) = str_lower(new_name)

\* f"{new_name}{file_extension}"
NewFilename(current_name, new_name) == new_name \o path_suffix(current_name)

\* a result with a status the response does not count
ErrorResult_failed(photo_id, message) ==
    [photo_id |-> photo_id, status |-> "failed", message |-> message]

ErrorResult(photo_id, message) ==
    [photo_id |-> photo_id, status |-> "error", message |-> message]

SkippedResult(photo_id) ==
    [photo_id |-> photo_id, status |-> "skipped",
     message |-> "Names are already the same"]

CopiedResult(status, id, old_name, new_name) ==
    [photo_id |-> id, status |-> status, old_name |-> old_name, new_name |-> new_name]

\* the outcomes of a Drive call on file id: a call on a file that is not in
\* the folder fails, any other call succeeds or fails (HttpError); what the
\* service does with an empty id is not decided by this program
CallOutcomes(id, files) ==
    IF id = <<>> \/ \E f \in files : f.id = id THEN BOOLEAN ELSE { FALSE }

DriveCall(i, call, id, nm, ok) ==
    [op |-> i, call |-> call, id |-> id, name |-> nm, ok |-> ok]

\* a failed copy followed by the delete all the same
NextStep_delete_anyway(step, ok) ==
    IF step = "get" /\ ok THEN "copy"
    ELSE IF step = "copy" THEN "delete"
    ELSE "loop"

\* the statement reached after a Drive call of the try block returned (ok)
\* or raised
NextStep(step, ok) ==
    IF step = "get" /\ ok THEN "copy"
    ELSE IF step = "copy" /\ ok THEN "delete"
    ELSE "loop"

\* len([r for r in results if r['status'] == status])
CountStatus(res, status) ==
    Cardinality({ i \in 1..Len(res) : res[i].status = status })

RenameResponse(res, rs) ==
    [status |-> 200, success |-> TRUE, results |-> res, total |-> Len(rs),
     successful |-> CountStatus(res, "success"),
     skipped |-> CountStatus(res, "skipped"),
     failed |-> CountStatus(res, "error")]

ErrorResponse(status, error) == [status |-> status, error |-> error]

InitRename ==
    /\ pc = "rename_call"
    /\ renames \in RenameRequests
    /\ drive = InitialDrive
    /\ results = <<>>
    /\ op = 0
    /\ drive_calls = <<>>
    /\ copied_file = NoFile
    /\ response = NoResponse
    /\ export_mappings = <<>>
    /\ IdleFix /\ IdleCall /\ IdleNorm /\ IdleVar /\ IdleProc /\ IdleMap

notRenVars == <<callVars, normVars, varVars, procVars, mapVars, export_mappings, fixVars>>

\* the request is read and the Drive client built
rename_files ==
    /\ pc = "rename_call"
    /\ IF renames = <<>>
       THEN /\ response' = ErrorResponse(400, "No rename operations provided")
            /\ pc' = "done"
       ELSE \E authenticated \in BOOLEAN :
               IF authenticated
               THEN pc' = "precheck" /\ UNCHANGED response
               ELSE /\ response' = ErrorResponse(500, "authenticate_drive")
                    /\ pc' = "done"
    /\ UNCHANGED <<renVars, notRenVars>>

\* the access test: the folder is listed and the first photo_id looked up
rename_precheck ==
    /\ pc = "precheck"
    /\ \E listed \in BOOLEAN :
          LET list_call == DriveCall(0, "list", <<>>, <<>>, listed)
              test_photo_id == renames[1].photo_id
          IN  IF ~listed
              THEN /\ drive_calls' = Append(drive_calls, list_call)
                   /\ response' = ErrorResponse(403, "Service account cannot access individual files")
                   /\ pc' = "done"
                   /\ UNCHANGED op
              ELSE IF test_photo_id = NoneValue
              THEN \* KeyError for a missing key, TypeError for a null id
                   /\ drive_calls' = Append(drive_calls, list_call)
                   /\ response' = ErrorResponse(403, "Service account cannot access individual files")
                   /\ pc' = "done"
                   /\ UNCHANGED op
              ELSE \E ok \in CallOutcomes(test_photo_id, drive) :
                      /\ drive_calls' = drive_calls \o
                             << list_call, DriveCall(0, "get", test_photo_id, <<>>, ok) >>
                      /\ IF ok
                         THEN pc' = "loop" /\ op' = 1 /\ UNCHANGED response
                         ELSE /\ response' = ErrorResponse(403, "Service account cannot access individual files")
                              /\ pc' = "done"
                              /\ UNCHANGED op
    /\ UNCHANGED <<renames, drive, results, copied_file, notRenVars>>

\* the head of the loop body: the two tests that end in `continue`
rename_op_begin ==
    /\ pc = "loop"
    /\ op <= Len(renames)
    /\ LET rename_op == renames[op]
       IN  IF MissingFields(rename_op)
           THEN /\ results' = Append(results,
                                  ErrorResult(rename_op.photo_id, "Missing required fields"))
                /\ op' = op + 1
                /\ UNCHANGED pc
           ELSE IF SameName(rename_op.current_name, rename_op.new_name)
           THEN /\ results' = Append(results, SkippedResult(rename_op.photo_id))
                /\ op' = op + 1
                /\ UNCHANGED pc
           ELSE /\ pc' = "get"
                /\ UNCHANGED <<results, op>>
    /\ UNCHANGED <<renames, drive, drive_calls, copied_file, response, notRenVars>>

\* drive_service.files().get(fileId=photo_id).execute()
drive_get ==
    /\ pc = "get"
    /\ LET photo_id == renames[op].photo_id
       IN  \E ok \in CallOutcomes(photo_id, drive) :
               /\ drive_calls' = Append(drive_calls, DriveCall(op, "get", photo_id, <<>>, ok))
               /\ pc' = NextStep("get", ok)
               /\ IF ok THEN UNCHANGED <<results, op>>
                  ELSE /\ results' = Append(results, ErrorResult(photo_id, "Drive API error"))
                       /\ op' = op + 1
    /\ UNCHANGED <<renames, drive, copied_file, response, notRenVars>>

\* drive_service.files().copy(fileId=photo_id, body={'name': new_filename})
drive_copy ==
    /\ pc = "copy"
    /\ LET photo_id     == renames[op].photo_id
           new_filename == NewFilename(renames[op].current_name, renames[op].new_name)
           n            == Cardinality({ f \in drive : f.id \notin { IdP1, IdP2 } }) + 1
       IN  \E ok \in CallOutcomes(photo_id, drive) :
               /\ drive_calls' =
                      Append(drive_calls, DriveCall(op, "copy", photo_id, new_filename, ok))
               /\ pc' = NextStep("copy", ok)
               /\ IF ok
                  THEN /\ copied_file' = [id |-> CopyId(n)]
                       /\ drive' = drive \cup
                              { DriveFile(CopyId(n), new_filename,
                                          (CHOOSE f \in drive : f.id = photo_id).origin) }
                       /\ UNCHANGED <<results, op>>
                  ELSE /\ results' = Append(results, ErrorResult(photo_id, "Drive API error"))
                       /\ op' = IF pc' = "loop" THEN op + 1 ELSE op
                       /\ UNCHANGED <<drive, copied_file>>
    /\ UNCHANGED <<renames, response, notRenVars>>

\* drive_service.files().delete(fileId=photo_id).execute()
drive_delete ==
    /\ pc = "delete"
    /\ LET photo_id     == renames[op].photo_id
           current_name == renames[op].current_name
           new_filename == NewFilename(current_name, renames[op].new_name)
       IN  \E ok \in CallOutcomes(photo_id, drive) :
               /\ drive_calls' = Append(drive_calls, DriveCall(op, "delete", photo_id, <<>>, ok))
               /\ drive' = IF ok THEN { f \in drive : f.id # photo_id } ELSE drive
               /\ results' = Append(results,
                      CopiedResult(IF ok THEN "success" ELSE "partial_success",
                                   copied_file.id, current_name, new_filename))
    /\ op' = op + 1
    /\ pc' = "loop"
    /\ UNCHANGED <<renames, copied_file, response, notRenVars>>

\* the counters and the 200 response after the loop
rename_respond ==
    /\ pc = "loop"
    /\ op > Len(renames)
    /\ response' = RenameResponse(results, renames)
    /\ pc' = "done"
    /\ UNCHANGED <<renVars, notRenVars>>

NextRename ==
    \/ rename_files
    \/ rename_precheck
    \/ rename_op_begin
    \/ drive_get
    \/ drive_copy
    \/ drive_delete
    \/ rename_respond

SpecRename == InitRename /\ [][NextRename]_vars

-----------------------------------------------------------------------------
(* load_data: photos, roster, mappings and their statistics *)

\* len([m for m in mappings if m['confidence'] == confidence])
CountConfidence(ms, confidence) ==
    Cardinality({ i \in 1..Len(ms) : ms[i].confidence = confidence })

RosterForFrontend(ps) ==
    [i \in 1..Len(ps) |->
        [full_name |-> ps[i].full_name, first_name |-> ps[i].first_name,
         last_name |-> ps[i].last_name, student_id |-> ps[i].student_id]]

LoadResponse(ms, phs, ps) ==
    [status |-> 200, mappings |-> ms, roster |-> RosterForFrontend(ps),
     stats |-> [total_photos |-> Len(phs), total_players |-> Len(ps),
                high_confidence_matches |-> CountConfidence(ms, "high"),
                medium_confidence_matches |-> CountConfidence(ms, "medium")]]

InitLoad ==
    /\ pc = "load_call"
    /\ photos \in PhotoLists
    /\ players \in MapRosters
    /\ mappings = <<>>
    /\ unmatched_photos = <<>>
    /\ match_results = <<>>
    /\ photo_name = <<>> /\ matches = <<>> /\ result = <<>>
    /\ IdleNorm /\ IdleVar /\ IdleProc /\ IdleExt

\* photos and players are what the folder and the roster sheet hold; an
\* exception of the authentication or of an API call gives the 500 response
load_data ==
    /\ pc = "load_call"
    /\ \E loaded \in BOOLEAN :
          IF ~loaded
          THEN /\ response' = ErrorResponse(500, "exception")
               /\ UNCHANGED <<mappings, match_results>>
          ELSE IF photos = <<>>
          THEN /\ response' = ErrorResponse(404, "No photos found in the Google Drive folder")
               /\ UNCHANGED <<mappings, match_results>>
          ELSE IF players = <<>>
          THEN /\ response' = ErrorResponse(404, "No players found in the roster sheet")
               /\ UNCHANGED <<mappings, match_results>>
          ELSE \E rs \in MatchAll(photos, players) :
                  /\ match_results' = rs
                  /\ mappings' = PhotoMappings(photos, rs)
                  /\ response' = LoadResponse(mappings', photos, players)
    /\ pc' = "done"
    /\ UNCHANGED <<photos, unmatched_photos, callVars, procVars, normVars, varVars,
                   renVars, export_mappings, fixVars>>

NextLoad == load_data

SpecLoad == InitLoad /\ [][NextLoad]_vars

-----------------------------------------------------------------------------
(* export_csv: the rows of the mappings that name a player *)

\* mappings in one request
MaxExport == 2

\* a key the JSON object does not have
AbsentValue == <<"absent">>

\* dict.get(key, default)
dict_get(v, default) == IF v = AbsentValue THEN default ELSE v

Name_Jo_spaces == <<" ">> \o Jo \o <<" ">>

ExportMappings ==
    { [playerName |-> n, driveId |-> dr, filename |-> Photo_smith_jpg,
       thumbnailUrl |-> AbsentValue] :
         n \in { AbsentValue, NoneValue, Empty, <<" ">>, Name_Jane_Doe, Name_Jo_spaces },
         dr \in { AbsentValue, IdP1 } }

ExportRequests == UNION { [1..n -> ExportMappings] : n \in 0..MaxExport }

CsvHeader ==
    << <<"PlayerName">>, <<"DriveId">>, <<"Filename">>, <<"GoogleDriveLink">>,
       <<"DirectImageLink">>, <<"ThumbnailLink">> >>

\* the player name taken as it is written
PlayerNameOf_no_strip(mapping) == dict_get(mapping.playerName, <<>>)

\* mapping.get('playerName', '').strip()
PlayerNameOf(mapping) == str_strip(dict_get(mapping.playerName, <<>>))

CsvRow(mapping) ==
    LET drive_id == dict_get(mapping.driveId, <<>>)
    IN  << PlayerNameOf(mapping),
           drive_id,
           dict_get(mapping.filename, <<>>),
           <<"https://drive.google.com/file/d/">> \o py_str(drive_id) \o <<"/view">>,
           <<"https://drive.google.com/uc?id=">> \o py_str(drive_id),
           dict_get(mapping.thumbnailUrl, <<>>) >>

\* csv_rows after the loop over the mappings
RECURSIVE CsvRows(_)
CsvRows(ms) ==
    IF ms = <<>> THEN << CsvHeader >>
    ELSE LET front   == CsvRows(SubSeq(ms, 1, Len(ms) - 1))
             mapping == ms[Len(ms)]
         IN  IF Truthy(PlayerNameOf(mapping))
             THEN Append(front, CsvRow(mapping))
             ELSE front

\* None has no strip(): AttributeError, caught by the handler
ExportRaises(ms) ==
    \E i \in 1..Len(ms) : ms[i].playerName = NoneValue

InitExport ==
    /\ pc = "export_call"
    /\ export_mappings \in ExportRequests
    /\ response = NoResponse
    /\ IdleRen /\ IdleFix /\ IdleCall /\ IdleNorm /\ IdleVar /\ IdleProc /\ IdleMap

export_csv ==
    /\ pc = "export_call"
    /\ response' =
          IF Len(export_mappings) = 0
          THEN ErrorResponse(400, "No mappings provided")
          ELSE IF ExportRaises(export_mappings)
          THEN ErrorResponse(500, "AttributeError")
          ELSE [status |-> 200, csvData |-> CsvRows(export_mappings),
                totalMappings |-> Len(CsvRows(export_mappings)) - 1]
    /\ pc' = "done"
    /\ UNCHANGED <<export_mappings, renVars, fixVars, callVars, normVars, varVars,
                   procVars, mapVars>>

NextExport == export_csv

SpecExport == InitExport /\ [][NextExport]_vars

-----------------------------------------------------------------------------
(* fix_mailing_list_structure: remove the group header row of the sheet *)

\* rows of the worksheet
MaxRows == 3
\* executions in one behaviour
MaxRuns == 2

\* a cell is the sequence of its words
GroupCell  == <<"Members", "for", "group", "madison-ultimate">>
EmailCell  == <<"Email", "address">>
MemberCell == <<"al@example.org">>

GroupRow  == << GroupCell, <<>> >>
HeaderRow == << EmailCell, <<"Nickname">> >>
MemberRow == << MemberCell, <<"al">> >>

SheetRows == { GroupRow, HeaderRow, MemberRow }

Sheets == UNION { [1..n -> SheetRows] : n \in 0..MaxRows }

\* "Members for group" in str(all_data[0][0])
HasGroupHeader(data) == IsSubstring(<<"Members", "for", "group">>, data[1][1])

\* all_data[1:]
FixedData(data) == SubSeq(data, 2, Len(data))

InitFix ==
    /\ pc = "fix_call"
    /\ sheet \in Sheets
    /\ sheet_before = sheet
    /\ all_data = <<>>
    /\ returned = "none"
    /\ runs = 1
    /\ response = NoResponse /\ export_mappings = <<>>
    /\ IdleRen /\ IdleCall /\ IdleNorm /\ IdleVar /\ IdleProc /\ IdleMap

notFixVars == <<response, renVars, export_mappings, callVars, normVars, varVars,
                procVars, mapVars>>

\* open_by_key, worksheet and get_all_values, and the two tests on the rows
fix_read ==
    /\ pc = "fix_call"
    /\ \E ok \in BOOLEAN :
          IF ~ok
          THEN returned' = "False" /\ pc' = "done" /\ UNCHANGED all_data
          ELSE /\ all_data' = sheet
               /\ IF Len(all_data') < 2
                  THEN returned' = "False" /\ pc' = "done"
                  ELSE IF HasGroupHeader(all_data')
                  THEN pc' = "clear" /\ UNCHANGED returned
                  ELSE returned' = "True" /\ pc' = "done"
    /\ UNCHANGED <<sheet, sheet_before, runs, notFixVars>>

\* mailing_list_sheet.clear()
fix_clear ==
    /\ pc = "clear"
    /\ \E ok \in BOOLEAN :
          IF ok
          THEN sheet' = <<>> /\ pc' = "update" /\ UNCHANGED returned
          ELSE returned' = "False" /\ pc' = "done" /\ UNCHANGED sheet
    /\ UNCHANGED <<all_data, sheet_before, runs, notFixVars>>

\* mailing_list_sheet.update('A1', fixed_data)
fix_update ==
    /\ pc = "update"
    /\ \E ok \in BOOLEAN :
          IF ok
          THEN sheet' = FixedData(all_data) /\ returned' = "True"
          ELSE returned' = "False" /\ UNCHANGED sheet
    /\ pc' = "done"
    /\ UNCHANGED <<all_data, sheet_before, runs, notFixVars>>

\* the script is run again on the sheet as the last run left it
fix_again ==
    /\ pc = "done"
    /\ runs < MaxRuns
    /\ runs' = runs + 1
    /\ sheet_before' = sheet
    /\ all_data' = <<>>
    /\ returned' = "none"
    /\ pc' = "fix_call"
    /\ UNCHANGED <<sheet, notFixVars>>

NextFix == fix_read \/ fix_clear \/ fix_update \/ fix_again

SpecFix == InitFix /\ [][NextFix]_vars

-----------------------------------------------------------------------------
(* Properties of match_photo_to_player *)

MatchDone == pc = "match_done"

\* the normalized filename stem of the call
Key == normalize_name(path_stem(photo_name))

RosterIdx == 1..Len(players)
ResultIdx == 1..Len(result)

VariationsOf(i) == generate_name_variations(players[i])

\* the positions of the result whose candidate is for roster entry i
CandidatesOf(i) == { j \in ResultIdx : result[j].player = players[i] }

HasExact(i) == Key \in VariationsOf(i)

\* some variation of entry i passes the partial test of the claim
HasPartial(i) ==
    \E v \in VariationsOf(i) :
        Len(v) > 2 /\ (IsSubstring(v, Key) \/ IsSubstring(Key, v))

\* C1: every roster person whose variation set contains the normalized
\* filename stem gets exactly one candidate, {player, high, exact, stem},
\* and no partial candidate, whatever other variations are substrings of
\* the stem.
C1_ExactOnce ==
    MatchDone =>
        \A i \in RosterIdx :
            HasExact(i) =>
                /\ Cardinality(CandidatesOf(i)) = 1
                /\ \A j \in CandidatesOf(i) :
                       result[j] = [player |-> players[i], confidence |-> "high",
                                    match_type |-> "exact",
                                    matched_variation |-> Key]

\* an exact person one of whose other variations (longer than 2) is inside the stem
C1_Witness ==
    /\ MatchDone
    /\ \E i \in RosterIdx :
           /\ HasExact(i)
           /\ \E v \in VariationsOf(i) \ {Key} : Len(v) > 2 /\ IsSubstring(v, Key)
           /\ Cardinality(CandidatesOf(i)) = 1

\* C2: if the normalized stem equals a variation of person P, P is in the
\* result as exact/high at a lower index than every partial/medium
\* candidate of another person, wherever P stands in the roster.
C2_ExactFirst ==
    MatchDone =>
        \A i \in RosterIdx :
            HasExact(i) =>
                \E j \in ResultIdx :
                    /\ result[j].player = players[i]
                    /\ result[j].match_type = "exact"
                    /\ result[j].confidence = "high"
                    /\ \A k \in ResultIdx :
                           ( /\ result[k].player # players[i]
                             /\ (result[k].match_type = "partial"
                                 \/ result[k].confidence = "medium") )
                           => j < k

\* an exact person standing last in the roster, behind two partial persons
C2_Witness ==
    /\ MatchDone
    /\ Len(players) = 3
    /\ HasExact(3) /\ ~HasExact(1) /\ ~HasExact(2)
    /\ HasPartial(1) /\ HasPartial(2)
    /\ result[1].player = players[3]

\* C3: the result is ordered by confidence, all high before all medium, and
\* two candidates of equal confidence stand in the roster order of their
\* persons.
C3_SortedStable ==
    MatchDone =>
        \A a \in ResultIdx : \A b \in ResultIdx :
            a < b =>
                /\ ~(result[a].confidence = "medium" /\ result[b].confidence = "high")
                /\ result[a].confidence = result[b].confidence
                       => result[a].player.student_id < result[b].player.student_id

\* two partial candidates in roster order behind an exact one that the sort moved
C3_Witness ==
    /\ MatchDone
    /\ Len(result) = 3
    /\ matches # result
    /\ result[1].confidence = "high"
    /\ result[2].confidence = "medium" /\ result[3].confidence = "medium"
    /\ result[2].player.student_id < result[3].player.student_id

\* C4: exact implies high, partial implies medium, no candidate is low and
\* no other match type is produced.
C4_Consistent ==
    MatchDone =>
        \A j \in ResultIdx :
            /\ result[j].match_type \in {"exact", "partial"}
            /\ result[j].match_type = "exact" => result[j].confidence = "high"
            /\ result[j].match_type = "partial" => result[j].confidence = "medium"
            /\ result[j].confidence # "low"

\* a result holding both an exact and a partial candidate
C4_Witness ==
    /\ MatchDone
    /\ \E j \in ResultIdx : result[j].match_type = "exact"
    /\ \E j \in ResultIdx : result[j].match_type = "partial"

\* C5: a person without an exact match gets a partial candidate iff some
\* variation longer than 2 characters contains the stem or is contained in
\* it; at most one partial candidate per person, whose matched_variation is
\* such a variation; Jane Doe with 'jane-doe-action-shot.png' gives exactly
\* one candidate, partial/medium.
C5_PartialIff ==
    MatchDone =>
        /\ \A i \in RosterIdx :
               ~HasExact(i) =>
                   /\ (CandidatesOf(i) # {}) <=> HasPartial(i)
                   /\ Cardinality(CandidatesOf(i)) <= 1
                   /\ \A j \in CandidatesOf(i) :
                          LET v == result[j].matched_variation
                          IN  /\ result[j].match_type = "partial"
                              /\ v \in VariationsOf(i)
                              /\ Len(v) > 2
                              /\ (IsSubstring(v, Key) \/ IsSubstring(Key, v))
        /\ (photo_name = Photo_jane_doe_action /\ players = Roster(<<JaneDoeNoFull>>))
               => /\ Len(result) = 1
                  /\ result[1].match_type = "partial"
                  /\ result[1].confidence = "medium"

\* the Jane Doe scenario has run and returned its single partial candidate
C5_Witness ==
    /\ MatchDone
    /\ photo_name = Photo_jane_doe_action
    /\ players = Roster(<<JaneDoeNoFull>>)
    /\ Len(result) = 1
    /\ result[1].matched_variation \in VariationsOf(1)

\* C6: a variation of 2 or fewer characters is never the matched_variation
\* of a partial candidate, and a person all of whose variations have 2 or
\* fewer characters never receives a partial candidate, even when such a
\* variation occurs inside the stem.
C6_ShortNeverPartial ==
    MatchDone =>
        /\ \A j \in ResultIdx :
               result[j].match_type = "partial"
                   => Len(result[j].matched_variation) > 2
        /\ \A i \in RosterIdx :
               (\A v \in VariationsOf(i) : Len(v) <= 2)
                   => \A j \in CandidatesOf(i) : result[j].match_type # "partial"

\* a person with only a short variation, which occurs inside a longer stem,
\* and who is not in the result
C6_Witness ==
    /\ MatchDone
    /\ \E i \in RosterIdx :
           /\ VariationsOf(i) # {}
           /\ \A v \in VariationsOf(i) : Len(v) <= 2
           /\ \E v \in VariationsOf(i) : IsSubstring(v, Key) /\ v # Key
           /\ CandidatesOf(i) = {}

\* C7: the result holds exactly one candidate for each roster entry that
\* qualifies (exact or partial) and none for the others; its length is the
\* number of qualifying entries, at most the roster length, and it is a
\* permutation of the emitted candidates.
C7_OnePerQualifying ==
    MatchDone =>
        /\ \A i \in RosterIdx :
               Cardinality(CandidatesOf(i)) =
                   IF HasExact(i) \/ HasPartial(i) THEN 1 ELSE 0
        /\ Len(result) =
               Cardinality({ i \in RosterIdx : HasExact(i) \/ HasPartial(i) })
        /\ Len(result) <= Len(players)
        /\ Len(result) = Len(matches)
        /\ \A j \in ResultIdx :
               \E k \in 1..Len(matches) : matches[k] = result[j]

\* every entry of a full roster qualifies, and one does so by several variations
C7_Witness ==
    /\ MatchDone
    /\ Len(players) = MaxRoster
    /\ Len(result) = MaxRoster
    /\ \E i \in RosterIdx :
           ~HasExact(i) /\
           Cardinality({ v \in VariationsOf(i) :
                           Len(v) > 2 /\ (IsSubstring(v, Key) \/ IsSubstring(Key, v)) }) > 1

-----------------------------------------------------------------------------
(* Properties of normalize_name *)

NormDone == pc = "norm_done"

\* C8: normalize_name is idempotent on every string over the alphabet of
\* upper/lower-case letters, digits, space, hyphen, underscore, punctuation.
C8_Idempotent ==
    NormDone => normalize_name(normalized) = normalized

\* an input that normalization changes: separators at an end or punctuation
C8_Witness ==
    /\ NormDone
    /\ normalized # name
    /\ normalized # <<>>
    /\ IsSepChar(name[1])

\* the tokens of a string: lower-cased, punctuation dropped, split at runs of
\* underscores, hyphens and whitespace
RECURSIVE Tokens(_)
Tokens(s) ==
    LET IsTokenSep(c) == IsSepChar(c) \/ c = "_"
        IsTokenChar(c) == c \in UpperChars \cup LowerChars \cup DigitChars
        t == SelectSeq(s, LAMBDA c : IsTokenSep(c) \/ IsTokenChar(c))
        FirstSep == CHOOSE k \in 1..Len(t) :
                        IsTokenSep(t[k]) /\ \A j \in 1..(k - 1) : ~IsTokenSep(t[j])
    IN  IF t = <<>> THEN <<>>
        ELSE IF \E k \in 1..Len(t) : IsTokenSep(t[k])
             THEN (IF FirstSep = 1 THEN <<>>
                   ELSE <<str_lower(SubSeq(t, 1, FirstSep - 1))>>)
                  \o Tokens(SubSeq(t, FirstSep + 1, Len(t)))
             ELSE <<str_lower(t)>>

\* C9: strings that differ only in case, in the separator between the same
\* tokens (underscore, hyphen, one or more spaces) or in punctuation have
\* the same normalize_name result; 'Jane_Doe', 'jane-doe' and 'Jane  Doe'
\* do.
C9_SeparatorInsensitive ==
    NormDone =>
        \A other \in NameInputs :
            Tokens(other) = Tokens(name) => normalize_name(other) = normalized

\* C10: the output of normalize_name holds only lower-case letters, digits
\* and single spaces: underscores and periods are removed, every run of
\* whitespace and hyphens is one space, and there is no leading or trailing
\* space and no upper-case letter.
C10_OutputAlphabet ==
    NormDone =>
        /\ \A k \in 1..Len(normalized) :
               normalized[k] \in LowerChars \cup DigitChars \cup {" "}
        /\ \A k \in 1..(Len(normalized) - 1) :
               ~(normalized[k] = " " /\ normalized[k + 1] = " ")
        /\ normalized # <<>> =>
               normalized[1] # " " /\ normalized[Len(normalized)] # " "

-----------------------------------------------------------------------------
(* Properties on empty and null input, and the scenarios *)

\* C11: for every filename string, the empty one included, and every roster,
\* the empty one and records with null or empty name fields included,
\* match_photo_to_player returns a sequence and never raises; normalize_name
\* returns the empty string for empty or null input; with an empty roster
\* the result is the empty sequence.
C11_NeverRaises ==
    /\ pc # "match_raised"
    /\ MatchDone =>
           /\ DOMAIN result = 1..Len(result)
           /\ players = <<>> => result = <<>>
    /\ (pc = "norm_done" /\ name \in {NoneValue, <<>>}) => normalized = <<>>

\* the empty filename matched against a record with null fields has returned
C11_Witness ==
    /\ MatchDone
    /\ photo_name = <<>>
    /\ \E i \in RosterIdx :
           players[i].full_name = NoneValue /\ players[i].parent1_first = NoneValue
    /\ Len(result) > 0

\* C16: for roster [{first 'Jane', last 'Doe', full 'Jane Doe'}] and
\* filename 'Jane_Doe.jpg' the result is exactly one candidate, exact/high.
C16_ScenarioA ==
    (MatchDone /\ photo_name = Photo_Jane_Doe_jpg
               /\ players = Roster(<<JaneDoeFull>>))
        => /\ Len(result) = 1
           /\ result[1].match_type = "exact"
           /\ result[1].confidence = "high"

\* scenario A has run
C16_Witness ==
    /\ MatchDone
    /\ photo_name = Photo_Jane_Doe_jpg
    /\ players = Roster(<<JaneDoeFull>>)
    /\ Len(result) = 1

\* Scenario D: roster [John Smith, Mary Smith-Jones], stem 'smith'
ScenarioD ==
    /\ MatchDone
    /\ photo_name = Photo_smith_jpg
    /\ players = Roster(<<JohnSmith, MarySmithJones>>)

\* C17 as claimed: in scenario D the result has exactly two candidates, both
\* partial/medium, John Smith first and Mary Smith-Jones second.
C17_BothPartial ==
    ScenarioD =>
        /\ Len(result) = 2
        /\ result[1].player = players[1]
        /\ result[2].player = players[2]
        /\ \A j \in 1..2 : /\ result[j].match_type = "partial"
                            /\ result[j].confidence = "medium"

\* C17 as amended: in scenario D the result has exactly two candidates in
\* roster order; John Smith is exact/high on the bare last name 'smith', and
\* Mary Smith-Jones is partial/medium on a variation that contains 'smith'.
C17_ScenarioD ==
    ScenarioD =>
        /\ Len(result) = 2
        /\ result[1] = [player |-> players[1], confidence |-> "high",
                        match_type |-> "exact", matched_variation |-> str_lower(Smith)]
        /\ result[2].player = players[2]
        /\ result[2].match_type = "partial"
        /\ result[2].confidence = "medium"
        /\ IsSubstring(str_lower(Smith), result[2].matched_variation)

C17_Witness ==
    /\ ScenarioD
    /\ Len(result) = 2
    /\ result[1].match_type = "exact"
    /\ result[2].match_type = "partial"

-----------------------------------------------------------------------------
(* Properties of calls in sequence *)

KeyOf(p) == normalize_name(path_stem(p))

\* the results a call on photo name p alone can return for roster ps
AloneResults(p, ps) ==
    { list_sort_reverse(ms) : ms \in LoopMatches(ps, KeyOf(p)) }

\* C14: two calls with the same filename and the same roster return identical
\* sequences, matched_variation included, whatever the iteration order of the
\* variation sets.
C14_Deterministic ==
    \A h1 \in history : \A h2 \in history :
        (h1.photo_name = h2.photo_name /\ h1.players = h2.players)
            => h1.result = h2.result

ClaimStem(p) ==
    LET dots == { i \in 1..Len(p) : p[i] = "." }
        last == CHOOSE i \in dots : \A k \in dots : k <= i
    IN  SubSeq(p, 1, last - 1)

\* C20: only the stem takes part: within one process two filenames that
\* differ only in their extension have identical results, and every result is
\* one computed from the normalized stem alone, so the extension text makes
\* no exact and no partial match.
C20_OnlyStem ==
    \A h1 \in history :
        /\ h1.result \in
               { list_sort_reverse(ms) :
                     ms \in LoopMatches(players, normalize_name(ClaimStem(h1.photo_name))) }
        /\ \A h2 \in history :
               (h1.epoch = h2.epoch
                /\ ClaimStem(h1.photo_name) = ClaimStem(h2.photo_name))
                   => h1.result = h2.result

\* 'Jane_Doe.jpg' and 'Jane_Doe.png' matched in one process with a candidate,
\* and 'smith.doe' matched against a roster holding Jane Doe
C20_Witness ==
    /\ MatchDone
    /\ epoch = 1
    /\ photo_name = Photo_smith_doe
    /\ \E i \in RosterIdx : players[i].last_name = Doe
    /\ result = <<>>
    /\ \E h1 \in history : \E h2 \in history :
           /\ h1.photo_name = Photo_Jane_Doe_jpg
           /\ h2.photo_name = Photo_Jane_Doe_png
           /\ h1.result # <<>>

\* two results that agree on everything but the variation reported for a
\* partial candidate
SameButVariation(r1, r2) ==
    /\ Len(r1) = Len(r2)
    /\ \A j \in 1..Len(r1) :
           /\ r1[j].player = r2[j].player
           /\ r1[j].confidence = r2[j].confidence
           /\ r1[j].match_type = r2[j].match_type
           /\ r1[j].match_type = "exact" =>
                  r1[j].matched_variation = r2[j].matched_variation

\* C21: whether a person receives a candidate, the candidate's confidence and
\* match_type and the order of the persons do not depend on the iteration
\* order of the variation sets; only matched_variation of a partial candidate
\* can differ between two iteration orders.
C21_OnlyVariationDiffers ==
    \A h1 \in history : \A h2 \in history :
        (h1.photo_name = h2.photo_name /\ h1.players = h2.players)
            => SameButVariation(h1.result, h2.result)

\* the same call made in two processes reported two different variations
C21_Witness ==
    \E h1 \in history : \E h2 \in history :
        /\ h1.photo_name = h2.photo_name
        /\ h1.epoch # h2.epoch
        /\ h1.result # h2.result
        /\ SameButVariation(h1.result, h2.result)

-----------------------------------------------------------------------------
(* Properties of calls with a short file name *)

ShortKey == MatchDone /\ Len(Key) <= 2

\* the variations of roster entry i that pass the partial test for Key
LongContaining(i) ==
    { v \in VariationsOf(i) : Len(v) > 2 /\ IsSubstring(Key, v) }

\* C22 as claimed: a filename whose normalized stem is empty or has 2 or fewer
\* characters never produces a partial candidate for any person.
C22_ShortStemNoPartial ==
    ShortKey => \A j \in ResultIdx : result[j].match_type # "partial"

\* C22 as amended: the guard is on the variation only.  For a normalized stem
\* of 2 or fewer characters a person receives a partial candidate exactly
\* when the stem is none of the person's variations and is contained in a
\* variation longer than 2 characters (every variation contains the empty
\* stem), and the candidate reports such a variation.
C22_ShortStemContained ==
    ShortKey =>
        \A i \in RosterIdx :
            /\ (\E j \in CandidatesOf(i) : result[j].match_type = "partial")
                   <=> (~HasExact(i) /\ LongContaining(i) # {})
            /\ \A j \in CandidatesOf(i) :
                   result[j].match_type = "partial" =>
                       result[j].matched_variation \in LongContaining(i)

\* a stem made only of punctuation gave John Smith a partial candidate
C22_Witness ==
    /\ ShortKey
    /\ Key = <<>>
    /\ Len(result) = 1
    /\ result[1].match_type = "partial"
    /\ result[1].player.first_name = John

-----------------------------------------------------------------------------
(* Properties of the mappings *)

AppDone    == pc = "app_done"
ScriptDone == pc = "script_done"

PhotoIdx == 1..Len(photos)

\* the mappings made for photo i
MappingsOf(i) == { k \in 1..Len(mappings) : mappings[k].photo_id = photos[i].id }

\* the alternatives the claim names: the candidates at index 1 and 2
ClaimedAlternatives(ms) ==
    [k \in 1..(IF Len(ms) - 1 < 2 THEN Len(ms) - 1 ELSE 2) |->
        AlternativeText(ms[k + 1])]

\* C18: for a photo with a non-empty match result the matched player is the
\* person of the first candidate, alternative_matches holds exactly the
\* candidates at index 1 and 2 when present, in that order, so its length is
\* min(2, number of candidates - 1), and nothing beyond is surfaced.
C18_BestAndTwoAlternatives ==
    (AppDone \/ ScriptDone) =>
        \A i \in PhotoIdx :
            match_results[i] # <<>> =>
                /\ Cardinality(MappingsOf(i)) = 1
                /\ \A k \in MappingsOf(i) :
                       LET m     == mappings[k]
                           first == match_results[i][1].player
                       IN  /\ m.student_id = first.student_id
                           /\ m.confidence = match_results[i][1].confidence
                           /\ m.match_type = match_results[i][1].match_type
                           /\ AppDone => m.matched_player = first.full_name
                           /\ ScriptDone =>
                                  /\ m.matched_player_name = first.full_name
                                  /\ m.matched_first_name = first.first_name
                                  /\ m.matched_last_name = first.last_name
                           /\ m.alternative_matches = ClaimedAlternatives(match_results[i])

\* a photo with four candidates has been mapped with two alternatives
C18_Witness ==
    /\ AppDone
    /\ \E i \in PhotoIdx :
           /\ Len(match_results[i]) = 4
           /\ Len(mappings[i].alternative_matches) = 2
           /\ mappings[i].student_id = 2

NoMatchShape(m) ==
    /\ m.confidence = "medium"
    /\ m.match_type = "no_match"
    /\ m.student_id = <<>>
    /\ m.alternative_matches = <<>>

\* C19 as claimed: a photo with an empty match result is reported as a mapping
\* with confidence 'medium', match_type 'no_match', empty matched_player,
\* student_id and alternative_matches; 'no_match' appears in a mapping exactly
\* when the match result of that photo was empty.
C19_NoMatchMapping ==
    (AppDone \/ ScriptDone) =>
        \A i \in PhotoIdx :
            /\ match_results[i] = <<>> =>
                   /\ MappingsOf(i) # {}
                   /\ \A k \in MappingsOf(i) : NoMatchShape(mappings[k])
            /\ \A k \in MappingsOf(i) :
                   mappings[k].match_type = "no_match" <=> match_results[i] = <<>>

\* C19 as amended: in create_photo_mappings of app.py the claim holds as
\* stated; in create_photo_mapping of photo_player_mapping.py a photo with an
\* empty match result gets no mapping and is appended to unmatched_photos,
\* and no mapping has match_type 'no_match'.
C19_NoMatchInAppOnly ==
    /\ AppDone =>
           /\ Len(mappings) = Len(photos)
           /\ \A i \in PhotoIdx :
                  /\ mappings[i].photo_id = photos[i].id
                  /\ match_results[i] = <<>> =>
                         /\ NoMatchShape(mappings[i])
                         /\ mappings[i].matched_player = <<>>
                  /\ mappings[i].match_type = "no_match" <=> match_results[i] = <<>>
    /\ ScriptDone =>
           /\ \A i \in PhotoIdx :
                  match_results[i] = <<>> =>
                      /\ MappingsOf(i) = {}
                      /\ \E k \in 1..Len(unmatched_photos) : unmatched_photos[k] = photos[i]
           /\ Len(unmatched_photos) =
                  Cardinality({ i \in PhotoIdx : match_results[i] = <<>> })
           /\ \A k \in 1..Len(mappings) : mappings[k].match_type # "no_match"

\* app.py has mapped a photo without candidates next to one with a candidate
C19_Witness ==
    /\ AppDone
    /\ Len(photos) = 2
    /\ match_results[1] # <<>>
    /\ match_results[2] = <<>>
    /\ mappings[2].match_type = "no_match"

-----------------------------------------------------------------------------
(* Properties of generate_name_variations *)

VarDone == pc = "var_done"

Present(x) == x # <<>> /\ x # NoneValue

\* the strings the claim lists for a record, before normalization
ClaimedStrings(pl) ==
    LET f  == pl.first_name
        l  == pl.last_name
        fu == pl.full_name
        Pair(pf, plast) ==
            IF Present(pf) /\ Present(plast)
            THEN { pf \o <<" ">> \o plast, pf \o <<"_">> \o plast,
                   plast \o <<"_">> \o pf, pf, plast }
            ELSE {}
    IN  (IF Present(f) /\ Present(l)
         THEN { f \o <<sep>> \o l : sep \in {" ", "_", ".", "-"} }
              \cup { l \o <<sep>> \o f : sep \in {" ", "_", ".", "-"} }
              \cup { f, l }
         ELSE {})
        \cup (IF Present(fu)
              THEN { fu } \cup { str_replace(fu, " ", sep) : sep \in {"_", ".", "-"} }
              ELSE {})
        \cup Pair(pl.parent1_first, pl.parent1_last)
        \cup Pair(pl.parent2_first, pl.parent2_last)

\* a record with only a first or only a last name, no full name and no
\* complete parent pair
OnlyOneName(pl) ==
    /\ Present(pl.first_name) # Present(pl.last_name)
    /\ ~Present(pl.full_name)
    /\ ~(Present(pl.parent1_first) /\ Present(pl.parent1_last))
    /\ ~(Present(pl.parent2_first) /\ Present(pl.parent2_last))

\* C12: generate_name_variations(p) is exactly the set of non-empty
\* normalize_name images of the listed strings: first and last joined by
\* space, underscore, period, hyphen in both orders plus the bare names
\* (both present), the full name and its three separator substitutions
\* (full present), and five strings per complete parent pair.  A record with
\* only a first or only a last name yields the empty set and never matches.
C12_ExactlyTheListed ==
    VarDone =>
        /\ variations = { normalize_name(x) : x \in ClaimedStrings(player) } \ { <<>> }
        /\ OnlyOneName(player) =>
               /\ variations = {}
               /\ \A ph \in PhotoNames \cup EdgePhotoNames :
                      LoopMatches(<<player>>, normalize_name(path_stem(ph))) = { <<>> }

\* a record with only a first name has been given the empty set
C12_Witness ==
    /\ VarDone
    /\ OnlyOneName(player)
    /\ player.first_name = Jane
    /\ player.parent1_first = Al
    /\ variations = {}

\* the letters and digits of a string, lower-cased
Skeleton(s) ==
    str_lower(SelectSeq(s, LAMBDA c : c \in UpperChars \cup LowerChars \cup DigitChars))

\* C13 as claimed: the set never holds two distinct elements that differ
\* only by case or by punctuation/separator characters.
C13_NoSeparatorDuplicates ==
    VarDone =>
        \A v \in variations : \A w \in variations :
            Skeleton(v) = Skeleton(w) => v = w

\* C13 as amended: the set never holds two distinct elements that differ
\* only by case; every element is a non-empty fixed point of normalize_name.
C13_NoCaseDuplicates ==
    VarDone =>
        \A v \in variations :
            /\ v # <<>>
            /\ normalize_name(v) = v
            /\ \A w \in variations : str_lower(v) = str_lower(w) => v = w

\* one person's set holds 'jane doe', 'jane_doe' and 'janedoe' together,
\* built from a full name in upper case and first and last in mixed case
C13_Witness ==
    /\ VarDone
    /\ player.full_name = JANE_DOE
    /\ player.first_name = Jane
    /\ { <<"j","a","n","e"," ","d","o","e">>, <<"j","a","n","e","_","d","o","e">>,
         <<"j","a","n","e","d","o","e">> } \subseteq variations

-----------------------------------------------------------------------------
(* Properties of rename_files *)

CallIdx == 1..Len(drive_calls)

\* the access test has listed the folder and found the first photo
PrecheckPassed ==
    /\ Len(drive_calls) >= 2
    /\ drive_calls[1].call = "list" /\ drive_calls[1].ok
    /\ drive_calls[2].call = "get" /\ drive_calls[2].op = 0 /\ drive_calls[2].ok

\* call k is the successful call `call` of the same operation as call k + 1
PrecededBy(k, call) ==
    /\ k >= 1
    /\ drive_calls[k].call = call
    /\ drive_calls[k].ok
    /\ drive_calls[k].op = drive_calls[k + 1].op
    /\ drive_calls[k].id = drive_calls[k + 1].id

\* photo f of the folder is still there, as the original or as a copy
Exists(f) ==
    \/ \E g \in drive : g.id = f.id
    \/ \E g \in drive : g.id # f.id /\ g.origin = f.id

\* C23: for each rename operation the Drive calls are issued in the order
\* get, copy, delete, and the delete only after the copy of the same operation
\* returned successfully; so in every reachable state each requested photo
\* exists as the original, as the copy or as both, and a failed copy leaves
\* the original in place with an 'error' result.
C23_CopyBeforeDelete ==
    /\ \A k \in CallIdx :
           /\ drive_calls[k].call = "copy" => PrecededBy(k - 1, "get")
           /\ drive_calls[k].call = "delete" =>
                  PrecededBy(k - 1, "copy") /\ PrecededBy(k - 2, "get")
    /\ \A f \in InitialDrive : Exists(f)
    /\ \A k \in CallIdx :
           (drive_calls[k].call = "copy" /\ ~drive_calls[k].ok) =>
               /\ \/ \E g \in drive : g.id = drive_calls[k].id
                  \/ \E j \in (k + 1)..Len(drive_calls) :
                         /\ drive_calls[j].call = "delete"
                         /\ drive_calls[j].id = drive_calls[k].id
               /\ Len(results) >= drive_calls[k].op
               /\ results[drive_calls[k].op].status = "error"
               /\ results[drive_calls[k].op].photo_id = drive_calls[k].id

\* one photo has been copied and deleted, the copy of another has failed
C23_Witness ==
    /\ pc = "done"
    /\ response.status = 200
    /\ \E k \in CallIdx : drive_calls[k].call = "delete" /\ drive_calls[k].ok
    /\ \E k \in CallIdx : drive_calls[k].call = "copy" /\ ~drive_calls[k].ok
    /\ \E f \in InitialDrive : \A g \in drive : g.id # f.id

RenameStatuses == { "success", "partial_success", "skipped", "error" }

\* result r is the entry of rename operation o
ResultOf(r, o) ==
    /\ r.status \in RenameStatuses
    /\ IF r.status \in { "success", "partial_success" }
       THEN r.old_name = o.current_name
       ELSE r.photo_id = o.photo_id
    /\ (~Present(o.photo_id) \/ ~Present(o.current_name) \/ ~Present(o.new_name))
           => (r.status = "error" /\ r.message = "Missing required fields")

\* C24: once the access pre-check has passed, every rename operation produces
\* exactly one entry in results, in request order, with status success,
\* partial_success, skipped or error; no Drive error or missing field stops
\* the later operations, and the response has
\* total = len(results) = len(renames).
C24_OneResultPerOperation ==
    PrecheckPassed =>
        /\ Len(results) <= Len(renames)
        /\ pc = "loop" => Len(results) = op - 1
        /\ \A i \in 1..Len(results) : ResultOf(results[i], renames[i])
        /\ pc = "done" =>
               /\ response.status = 200
               /\ response.results = results
               /\ response.total = Len(renames)
               /\ Len(response.results) = Len(renames)

\* a missing field first and a Drive error next did not stop the third
\* operation from being renamed
C24_Witness ==
    /\ pc = "done"
    /\ response.status = 200
    /\ Len(results) >= 2
    /\ results[1].status = "error"
    /\ results[1].message = "Missing required fields"
    /\ results[Len(results)].status = "success"

\* C25: in every 200 response the counters account for every operation:
\* successful + skipped + failed = total, whatever the outcomes of the copy
\* and delete calls.
C25_CountersAddUp ==
    response.status = 200 =>
        response.successful + response.skipped + response.failed = response.total

\* C26: an operation that lacks photo_id, current_name or new_name is reported
\* with status 'error' and message 'Missing required fields' while the
\* request as a whole succeeds, at whichever position of the list it stands,
\* the first included.
C26_MissingFieldsAnyPosition ==
    (pc = "done" /\ renames # <<>> /\ response.status # 500
     /\ \A k \in CallIdx : drive_calls[k].ok) =>
        /\ response.status = 200
        /\ \A i \in 1..Len(renames) :
               (~Present(renames[i].photo_id) \/ ~Present(renames[i].current_name)
                \/ ~Present(renames[i].new_name))
                   => /\ response.results[i].status = "error"
                      /\ response.results[i].message = "Missing required fields"

\* the text of a name from its last dot on
ClaimExt(nm) == SubSeq(nm, Len(ClaimStem(nm)) + 1, Len(nm))

\* an operation with all three fields whose current-name stem differs from
\* the new name ignoring case
ClaimEligible(o) ==
    /\ Present(o.photo_id) /\ Present(o.current_name) /\ Present(o.new_name)
    /\ str_lower(ClaimStem(o.current_name)) # str_lower(o.new_name)

CopyOrDelete(k) == drive_calls[k].call \in { "copy", "delete" }

\* C27: a Drive copy or delete is issued only for an operation that has all
\* three fields and whose current-name stem differs from new_name ignoring
\* case, and only after the access pre-check succeeded; on the 400 and 403
\* paths and for skipped and missing-field operations no file is copied or
\* deleted; the copy is named new_name followed by the extension of
\* current_name.
C27_CallsOnlyForEligible ==
    /\ \A k \in CallIdx :
           CopyOrDelete(k) =>
               /\ PrecheckPassed
               /\ k > 2
               /\ drive_calls[k].op \in 1..Len(renames)
               /\ ClaimEligible(renames[drive_calls[k].op])
               /\ drive_calls[k].id = renames[drive_calls[k].op].photo_id
               /\ drive_calls[k].call = "copy" =>
                      drive_calls[k].name =
                          renames[drive_calls[k].op].new_name
                              \o ClaimExt(renames[drive_calls[k].op].current_name)
    /\ response.status \in { 400, 403 } =>
           /\ drive = InitialDrive
           /\ \A k \in CallIdx : ~CopyOrDelete(k)
    /\ \A g \in drive \ InitialDrive :
           \E k \in CallIdx :
               /\ drive_calls[k].call = "copy" /\ drive_calls[k].ok
               /\ drive_calls[k].name = g.name
    /\ \A f \in InitialDrive \ drive :
           \E k \in CallIdx :
               /\ drive_calls[k].call = "delete" /\ drive_calls[k].ok
               /\ drive_calls[k].id = f.id

\* a request with a skipped operation and a renamed one: only the copy
\* 'Jane_Doe.jpg' was made
C27_Witness ==
    /\ pc = "done"
    /\ response.status = 200
    /\ \E i \in 1..Len(results) : results[i].status = "skipped"
    /\ \E g \in drive : g.name = Name_Jane_Doe \o DotJpg
    /\ Cardinality(drive) = 2

-----------------------------------------------------------------------------
(* Properties of load_data *)

\* C28: create_photo_mappings returns exactly one mapping per input photo, in
\* photo order, each with confidence 'high' or 'medium'; so in every 200
\* response of load_data len(mappings) = stats.total_photos and
\* high_confidence_matches + medium_confidence_matches = total_photos.
C28_StatsAccountForPhotos ==
    response.status = 200 =>
        /\ Len(response.mappings) = Len(photos)
        /\ \A i \in 1..Len(photos) :
               /\ response.mappings[i].photo_id = photos[i].id
               /\ response.mappings[i].filename = photos[i].name
               /\ response.mappings[i].confidence \in { "high", "medium" }
        /\ Len(response.mappings) = response.stats.total_photos
        /\ response.stats.high_confidence_matches
              + response.stats.medium_confidence_matches
                  = response.stats.total_photos

\* a 200 response with an unmatched photo and an exactly matched one
C28_Witness ==
    /\ response.status = 200
    /\ Len(photos) = 2
    /\ match_results[1] = <<>>
    /\ response.mappings[2].confidence = "high"
    /\ response.stats.medium_confidence_matches = 1

-----------------------------------------------------------------------------
(* Properties of export_csv *)

\* the player name of mapping i as the claim reads it: absent is empty
ClaimedName(i) ==
    IF export_mappings[i].playerName = AbsentValue THEN <<>>
    ELSE str_strip(export_mappings[i].playerName)

\* the mappings whose player name is non-empty after stripping
NamedIdx == { i \in 1..Len(export_mappings) : ClaimedName(i) # <<>> }

\* the j-th of them in input order
NthNamed(j) ==
    CHOOSE i \in NamedIdx : Cardinality({ k \in NamedIdx : k <= i }) = j

\* C29: csvData has the fixed header as its first row and then, in input
\* order, exactly the mappings whose playerName is non-empty after stripping
\* whitespace; totalMappings is the number of those rows; an empty or absent
\* mappings list gives a 400 error and no csvData.
C29_NamedRowsOnly ==
    /\ response.status = 200 =>
           /\ export_mappings # <<>>
           /\ response.csvData[1] = CsvHeader
           /\ Len(response.csvData) = Cardinality(NamedIdx) + 1
           /\ response.totalMappings = Cardinality(NamedIdx)
           /\ \A j \in 1..Cardinality(NamedIdx) :
                  /\ response.csvData[j + 1][1] = ClaimedName(NthNamed(j))
                  /\ response.csvData[j + 1][3] = export_mappings[NthNamed(j)].filename
                  /\ export_mappings[NthNamed(j)].driveId # AbsentValue =>
                         response.csvData[j + 1][2] = export_mappings[NthNamed(j)].driveId
    /\ (pc = "done" /\ export_mappings = <<>>) =>
           /\ response.status = 400
           /\ "csvData" \notin DOMAIN response

\* a blank name dropped in front of a name that is kept stripped
C29_Witness ==
    /\ response.status = 200
    /\ Len(export_mappings) = 2
    /\ export_mappings[1].playerName = <<" ">>
    /\ export_mappings[2].playerName = Name_Jo_spaces
    /\ response.totalMappings = 1
    /\ response.csvData[2][1] = Jo

-----------------------------------------------------------------------------
(* Properties of fix_mailing_list_structure *)

FixDone == pc = "done"

\* C30: after any execution, one in which an API call fails and the function
\* returns False included, the sheet holds its original rows or its original
\* rows without the first; it is modified only when it has at least 2 rows
\* and its first cell contains 'Members for group'; a run on an already fixed
\* sheet changes nothing.
C30_OriginalOrFixed ==
    FixDone =>
        /\ sheet = sheet_before \/ sheet = FixedData(sheet_before)
        /\ sheet # sheet_before =>
               /\ Len(sheet_before) >= 2
               /\ IsSubstring(<<"Members", "for", "group">>, sheet_before[1][1])
        /\ (sheet_before # <<>>
            /\ ~IsSubstring(<<"Members", "for", "group">>, sheet_before[1][1]))
               => sheet = sheet_before

====
